---------------------------- MODULE Spec2Model ----------------------------
(***************************************************************************)
(* A model of the docker-compose memory-reduction scripts:                 *)
(*   reduce-reservations.py, reduce-cassandra.py, reduce-pulsar-memory.py, *)
(*   reduce-qdrant.py, remove-monitoring.py.                               *)
(*                                                                         *)
(* Representation of a loaded YAML document (ruamel CommentedMap/Seq):     *)
(*   [t |-> "map",  kv |-> <<[k |-> key, v |-> node], ...>>]  ordered map   *)
(*   [t |-> "list", items |-> <<node, ...>>]                   sequence     *)
(*   [t |-> "str",  s |-> <<"6","0","0","M">>]                 string       *)
(*   [t |-> "int",  n |-> 600]                                 integer      *)
(*   [t |-> "null"]                                            None         *)
(* A Python string is a sequence of one-character strings, so that         *)
(* parsing, formatting and splitting are computed and not assumed.  In an  *)
(* environment entry a multi-character token such as "JVM_OPTS" stands for *)
(* a run of characters none of which is "=".                               *)
(***************************************************************************)
EXTENDS Integers, Sequences, FiniteSets, TLC

VARIABLES
    mem_str,    \* parse_memory: the argument
    parsed,     \* parse_memory: the outcome, "none" before the call
    file,       \* the compose file on disk, as a document
    args,       \* the parsed command line
    pc,         \* where main is
    data,       \* main: the loaded document, edited in place
    idx,        \* main: position of the loop over the services
    changes,    \* main: the changes collected so far
    stderr,     \* the services a warning was printed for
    last,       \* the latest call of reduce_service_reservation
    runs,       \* the runs of the script completed so far
    svc_config, \* update_*: the service's mapping, edited in place
    call,       \* update_*: the latest call (function and settings)
    prev,       \* update_*: svc_config before the latest call
    ret,        \* update_*: the changes the latest call returned
    ncalls,     \* update_*: the calls made so far
    manifest,   \* whole runs: the compose file on disk
    outcome,    \* whole runs: the latest run of a script
    twin,       \* whole runs: the same run with the dry-run flag flipped
    nruns,      \* whole runs: the runs made so far
    data1,      \* compare_yaml: the document loaded from file1
    data2,      \* compare_yaml: the document loaded from file2
    context,    \* compare_yaml: the parts of --section, <<>> without it
    compared    \* compare_yaml: what the call returned, and the call with
                \* the two files exchanged

ParseVars == <<mem_str, parsed>>
ReserveVars == <<file, args, pc, data, idx, changes, stderr, last, runs>>
EnvVars == <<svc_config, call, prev, ret, ncalls>>
DryVars == <<manifest, outcome, twin, nruns>>
DiffVars == <<data1, data2, context, compared>>

vars == <<mem_str, parsed, file, args, pc, data, idx, changes, stderr, last, runs,
          svc_config, call, prev, ret, ncalls, manifest, outcome, twin, nruns,
          data1, data2, context, compared>>

-----------------------------------------------------------------------------
(* Bounds of the model.                                                    *)

\* longest enumerated memory text given to parse_memory
MaxLen == 3

\* most entries of an environment before the first update
MaxEnv == 2

\* most calls of the update functions on one service
MaxCalls == 2

\* longest list of mappings in a compared document
MaxItems == 2

\* most services in a compose file
MaxServices == 2

\* most runs of a script on the same compose file
MaxRuns == 2

-----------------------------------------------------------------------------
(* Python strings.                                                         *)

Str(s) == [t |-> "str", s |-> s]
IntNode(n) == [t |-> "int", n |-> n]
None == [t |-> "null"]

DigitChars == <<"0", "1", "2", "3", "4", "5", "6", "7", "8", "9">>
LowerChars == <<"a","b","c","d","e","f","g","h","i","j","k","l","m",
                "n","o","p","q","r","s","t","u","v","w","x","y","z">>
UpperChars == <<"A","B","C","D","E","F","G","H","I","J","K","L","M",
                "N","O","P","Q","R","S","T","U","V","W","X","Y","Z">>

\* \d of the regular expression
DigitSet == {DigitChars[i] : i \in 1..10}

\* \s of the regular expression, and what str.strip() removes
SpaceSet == {" ", "\t", "\n"}

DigitVal(c) == (CHOOSE i \in 1..10 : DigitChars[i] = c) - 1

\* str.upper() on one character
UpperChar(c) ==
    IF \E i \in 1..26 : LowerChars[i] = c
    THEN UpperChars[CHOOSE i \in 1..26 : LowerChars[i] = c]
    ELSE c

\* str.upper()
upper(s) == [i \in 1..Len(s) |-> UpperChar(s[i])]

\* str.strip(): leading and trailing whitespace removed
strip(s) ==
    LET keep == {i \in 1..Len(s) : s[i] \notin SpaceSet}
    IN  IF keep = {} THEN <<>>
        ELSE SubSeq(s, CHOOSE i \in keep : \A j \in keep : i <= j,
                       CHOOSE i \in keep : \A j \in keep : j <= i)

\* str(x) for the scalars a manifest holds
RECURSIVE IntToStr(_)
IntToStr(n) ==
    IF n < 0 THEN <<"-">> \o IntToStr(-n)
    ELSE IF n < 10 THEN <<DigitChars[n + 1]>>
    ELSE IntToStr(n \div 10) \o <<DigitChars[(n % 10) + 1]>>

str(x) ==
    CASE x.t = "str"  -> x.s
      [] x.t = "int"  -> IntToStr(x.n)
      [] x.t = "null" -> <<"N", "o", "n", "e">>

\* the value of a run of decimal digits
RECURSIVE NatOf(_)
NatOf(ds) ==
    IF ds = <<>> THEN 0
    ELSE 10 * NatOf(SubSeq(ds, 1, Len(ds) - 1)) + DigitVal(ds[Len(ds)])

RECURSIVE Pow10(_)
Pow10(n) == IF n = 0 THEN 1 ELSE 10 * Pow10(n - 1)

-----------------------------------------------------------------------------
(* reduce-reservations.py: parse_memory and format_memory.                 *)

\* the end of the longest run of characters of the class cs that starts at i
\* (i - 1 when there is none): a greedy \d+ or \s*
SpanEnd(s, i, cs) ==
    CHOOSE j \in (i - 1)..Len(s) :
        /\ \A k \in i..j : s[k] \in cs
        /\ (j = Len(s) \/ s[j + 1] \notin cs)

\* re.match(r'^(\d+(?:\.\d+)?)\s*([KMGT]?)B?$', s): the groups, or no match.
\* The pattern is matched left to right, each operator taking the ends of the
\* pieces matched before it; no piece can give back characters to a later
\* one, so the greedy match is the only one.

\* B?$ after the unit, and the result
re_end(s, intEnd, numEnd, wsEnd, unitEnd) ==
    IF /\ intEnd >= 1
       /\ unitEnd + (IF unitEnd + 1 <= Len(s) /\ s[unitEnd + 1] = "B" THEN 1 ELSE 0) = Len(s)
    THEN [match |-> TRUE,
          int   |-> SubSeq(s, 1, intEnd),
          frac  |-> SubSeq(s, intEnd + 2, numEnd),
          unit  |-> IF unitEnd > wsEnd THEN s[unitEnd] ELSE ""]
    ELSE [match |-> FALSE]

\* ([KMGT]?) after the blanks
re_unit(s, intEnd, numEnd, wsEnd) ==
    re_end(s, intEnd, numEnd, wsEnd,
           IF wsEnd + 1 <= Len(s) /\ s[wsEnd + 1] \in {"K", "M", "G", "T"}
           THEN wsEnd + 1 ELSE wsEnd)

\* \s* after the number
re_blank(s, intEnd, numEnd) ==
    re_unit(s, intEnd, numEnd, SpanEnd(s, numEnd + 1, SpaceSet))

\* (?:\.\d+)? after the integer digits: taken only with a digit after the dot
re_frac(s, intEnd, fracEnd) ==
    re_blank(s, intEnd, IF fracEnd >= intEnd + 2 THEN fracEnd ELSE intEnd)

\* \d+ at the start
re_int(s, intEnd) ==
    re_frac(s, intEnd,
            IF intEnd + 1 <= Len(s) /\ s[intEnd + 1] = "."
            THEN SpanEnd(s, intEnd + 2, DigitSet) ELSE intEnd)

re_match(s) == re_int(s, SpanEnd(s, 1, DigitSet))

\* mutant of ScaleByUnit: the K multiplier is 1024 instead of 1/1024
ScaleByUnit_KMultiplies(int, frac, unit) ==
    LET num == NatOf(int \o frac)
        den == Pow10(Len(frac))
    IN  CASE unit = ""  -> num \div den
          [] unit = "M" -> num \div den
          [] unit = "K" -> (num * 1024) \div den
          [] unit = "G" -> (num * 1024) \div den
          [] unit = "T" -> (num * 1024 * 1024) \div den

\* int(float(group 1) * multipliers[unit]).  The number is int.frac, that is
\* NatOf(int \o frac) / 10^Len(frac); every multiplier is a power of two, so
\* the float product is exact and int() truncates the exact quotient.
ScaleByUnit(int, frac, unit) ==
    LET num == NatOf(int \o frac)
        den == Pow10(Len(frac))
    IN  CASE unit = ""  -> num \div den
          [] unit = "M" -> num \div den
          [] unit = "K" -> num \div (den * 1024)
          [] unit = "G" -> (num * 1024) \div den
          [] unit = "T" -> (num * 1024 * 1024) \div den

\* parse_memory(mem_str): [ok |-> TRUE, mb |-> megabytes], or ok = FALSE for
\* the ValueError("Cannot parse memory value")
\* lines 24-31, given the match
parse_matched(m) ==
    IF m.match
    THEN [ok |-> TRUE, mb |-> ScaleByUnit(m.int, m.frac, m.unit)]
    ELSE [ok |-> FALSE]

parse_memory(v) ==
    IF v.t = "int" THEN [ok |-> TRUE, mb |-> v.n]
    ELSE parse_matched(re_match(upper(strip(str(v)))))

\* format_memory(mb): f"{mb}M"
format_memory(mb) == IntToStr(mb) \o <<"M">>

-----------------------------------------------------------------------------
(* Specification SpecParse: parse_memory applied to one bounded input.     *)

\* the characters the enumerated texts are made of
Alphabet == {"0", "1", ".", " ", "k", "M", "g", "T", "B", "x"}

RECURSIVE TextsOfLen(_)
TextsOfLen(n) ==
    IF n = 0 THEN {<<>>}
    ELSE {Append(s, c) : s \in TextsOfLen(n - 1), c \in Alphabet}

Texts == UNION {TextsOfLen(n) : n \in 0..MaxLen}

\* the texts the documentation of parse_memory and the manifests use
ExampleTexts ==
    { <<"6","0","0","M">>, <<"1","G">>, <<"1","5","3","6">>, <<"2","T">>,
      <<"b","o","g","u","s">>, <<"1","2","8","M">>, <<"2","0","4","8","K">>,
      <<"1",".","5","G">>, <<"5","1","2","m","b">>, <<"1","0","2","3","K">>,
      <<" ","1",".","5"," ","g","B"," ">>, <<"1","G"," ","B">>, <<"1",".","G">>,
      <<"1","0","0","M">>, <<"5","0","M">>, <<"3","2","M">>, <<"-","1","M">> }

ParseInputs ==
    {Str(s) : s \in Texts \cup ExampleTexts} \cup {IntNode(0), IntNode(64), None}

ParseIdle ==
    /\ mem_str = None
    /\ parsed = [state |-> "none"]

ReserveIdle ==
    /\ file = None /\ args = None /\ pc = "idle" /\ data = None /\ idx = 0
    /\ changes = <<>> /\ stderr = <<>> /\ last = None /\ runs = <<>>

EnvIdle ==
    /\ svc_config = None /\ call = None /\ prev = None
    /\ ret = <<>> /\ ncalls = 0

DryIdle ==
    /\ manifest = None /\ outcome = None /\ twin = None /\ nruns = 0

DiffIdle ==
    /\ data1 = None /\ data2 = None /\ context = <<>> /\ compared = None

ParseInit ==
    /\ mem_str \in ParseInputs
    /\ parsed = [state |-> "none"]
    /\ ReserveIdle
    /\ EnvIdle
    /\ DryIdle
    /\ DiffIdle

\* the outcome of a call as the caller sees it
Outcome(r) ==
    IF r.ok THEN [state |-> "returned", mb |-> r.mb] ELSE [state |-> "ValueError"]

ParseMemory ==
    /\ parsed.state = "none"
    /\ parsed' = Outcome(parse_memory(mem_str))
    /\ UNCHANGED <<mem_str, ReserveVars, EnvVars, DryVars, DiffVars>>

ParseNext == ParseMemory

SpecParse == ParseInit /\ [][ParseNext]_vars

-----------------------------------------------------------------------------
(* C5: the quantity grammar and the unit table, stated independently of    *)
(* the scanner above.                                                      *)

\* s[a..b] are all characters of the class cs
C5_All(s, a, b, cs) == \A k \in a..b : s[k] \in cs

\* s is <digits>[.<digits>] up to p2 with the integer digits ending at p1,
\* then (when ws) optional blanks, an optional unit letter, an optional B
C5_Shape(s, p1, p2, ws) ==
    /\ C5_All(s, 1, p1, DigitSet)
    /\ \/ p2 = p1
       \/ p2 >= p1 + 2 /\ s[p1 + 1] = "." /\ C5_All(s, p1 + 2, p2, DigitSet)
    /\ \E p3 \in p2..Len(s) :
          /\ IF ws THEN C5_All(s, p2 + 1, p3, SpaceSet) ELSE p3 = p2
          /\ \E p4 \in p3..Len(s) :
                /\ p4 = p3 \/ (p4 = p3 + 1 /\ s[p4] \in {"K","M","G","T","k","m","g","t"})
                /\ p4 = Len(s) \/ (p4 + 1 = Len(s) /\ s[Len(s)] \in {"B", "b"})

C5_Matches(s, ws) ==
    \E p1 \in 1..Len(s) : \E p2 \in p1..Len(s) : C5_Shape(s, p1, p2, ws)

\* the unit letter of a matching text, upper-cased ("" when there is none)
C5_Unit(s) ==
    CASE \E k \in 1..Len(s) : s[k] \in {"K", "k"} -> "K"
      [] \E k \in 1..Len(s) : s[k] \in {"G", "g"} -> "G"
      [] \E k \in 1..Len(s) : s[k] \in {"T", "t"} -> "T"
      [] OTHER -> "M"

\* megabytes of a matching text by the claim's table:
\* K = divide by 1024 truncating, M = none = 1, G = 1024, T = 1024 * 1024
C5_Megabytes(s, ws) ==
    LET p1  == CHOOSE a \in 1..Len(s) : \E b \in a..Len(s) : C5_Shape(s, a, b, ws)
        p2  == CHOOSE b \in p1..Len(s) : C5_Shape(s, p1, b, ws)
        num == NatOf(SubSeq(s, 1, p1) \o SubSeq(s, p1 + 2, p2))
        den == Pow10(IF p2 > p1 THEN p2 - p1 - 1 ELSE 0)
        u   == C5_Unit(s)
    IN  CASE u = "K" -> num \div (1024 * den)
          [] u = "M" -> num \div den
          [] u = "G" -> (1024 * num) \div den
          [] u = "T" -> (1048576 * num) \div den

\* s without its leading and trailing blanks
C5_Trimmed(s) ==
    IF C5_All(s, 1, Len(s), SpaceSet) THEN <<>>
    ELSE LET lo == CHOOSE a \in 1..Len(s) :
                       s[a] \notin SpaceSet /\ C5_All(s, 1, a - 1, SpaceSet)
             hi == CHOOSE b \in 1..Len(s) :
                       s[b] \notin SpaceSet /\ C5_All(s, b + 1, Len(s), SpaceSet)
         IN  SubSeq(s, lo, hi)

C5_Examples ==
    /\ parse_memory(Str(<<"6","0","0","M">>)) = [ok |-> TRUE, mb |-> 600]
    /\ parse_memory(Str(<<"1","G">>)) = [ok |-> TRUE, mb |-> 1024]
    /\ parse_memory(Str(<<"1","5","3","6">>)) = [ok |-> TRUE, mb |-> 1536]
    /\ parse_memory(Str(<<"2","T">>)) = [ok |-> TRUE, mb |-> 2097152]
    /\ parse_memory(Str(<<"2","0","4","8","K">>)) = [ok |-> TRUE, mb |-> 2]
    /\ parse_memory(Str(<<"1","0","2","3","K">>)) = [ok |-> TRUE, mb |-> 0]
    /\ ~parse_memory(Str(<<"b","o","g","u","s">>)).ok

\* C5 as stated: parse_memory maps every text of the form
\* <number>[.<number>]<optional unit K/M/G/T, any case><optional B> to the
\* non-negative megabytes of the unit table, and every text that is not of
\* that form fails with a ParseError.
C5_ParseAsStated ==
    (parsed.state # "none" /\ mem_str.t = "str") =>
        IF C5_Matches(mem_str.s, FALSE)
        THEN /\ parsed.state = "returned"
             /\ parsed.mb = C5_Megabytes(mem_str.s, FALSE)
             /\ parsed.mb >= 0
        ELSE parsed.state = "ValueError"

\* C5 as amended: the same, for the text with its leading and trailing
\* whitespace removed and with optional whitespace allowed between the
\* number and the unit letter; every other text fails with a ParseError.
C5_ParseAmended ==
    /\ C5_Examples
    /\ (parsed.state # "none" /\ mem_str.t = "str") =>
        LET s == C5_Trimmed(mem_str.s)
        IN  IF C5_Matches(s, TRUE)
            THEN /\ parsed.state = "returned"
                 /\ parsed.mb = C5_Megabytes(s, TRUE)
                 /\ parsed.mb >= 0
            ELSE parsed.state = "ValueError"

\* a text with a blank between number and unit has been parsed
C5_Witness ==
    /\ mem_str = Str(<<"1", " ", "g">>)
    /\ parsed = [state |-> "returned", mb |-> 1024]

-----------------------------------------------------------------------------
(* Ordered mappings (dict / CommentedMap).                                 *)

MapNode(kv) == [t |-> "map", kv |-> kv]
EmptyMap == MapNode(<<>>)
ListNode(items) == [t |-> "list", items |-> items]

\* k in m
Has(m, k) == \E i \in 1..Len(m.kv) : m.kv[i].k = k

IndexOf(m, k) == CHOOSE i \in 1..Len(m.kv) : m.kv[i].k = k

\* m[k]
Get(m, k) == m.kv[IndexOf(m, k)].v

\* m.get(k, default)
GetOr(m, k, default) == IF Has(m, k) THEN Get(m, k) ELSE default

\* m[k] = v: an existing key keeps its position, a new key goes last
Put(m, k, v) ==
    IF Has(m, k)
    THEN [m EXCEPT !.kv[IndexOf(m, k)].v = v]
    ELSE [m EXCEPT !.kv = Append(@, [k |-> k, v |-> v])]

\* del m[k]
Del(m, k) ==
    [m EXCEPT !.kv = SubSeq(@, 1, IndexOf(m, k) - 1)
                     \o SubSeq(@, IndexOf(m, k) + 1, Len(@))]

Keys(m) == [i \in 1..Len(m.kv) |-> m.kv[i].k]

\* the effect on m of assigning m[path[1]][path[2]]...[path[n]] = v, every
\* mapping on the way being an object m already holds
RECURSIVE SetPath(_, _, _)
SetPath(m, path, v) ==
    IF Len(path) = 1 THEN Put(m, path[1], v)
    ELSE Put(m, path[1], SetPath(Get(m, path[1]), Tail(path), v))

-----------------------------------------------------------------------------
(* reduce-reservations.py: reduce_service_reservation.                     *)

\* a reduction factor num/den (argparse type=float); the model's factors
\* have a power of two as den, so old_mb * factor is exact in floating point
Factor(num, den) == [num |-> num, den |-> den]

\* the floor written into the code
HardFloor == 32

\* mutant of lookup_reservations: the limits are looked up instead
lookup_reservations_limits(service_config) ==
    IF service_config.t # "map" THEN [exc |-> TRUE]
    ELSE LET deploy == GetOr(service_config, "deploy", EmptyMap)
         IN  IF deploy.t # "map" THEN [exc |-> TRUE]
             ELSE LET resources == GetOr(deploy, "resources", EmptyMap)
                  IN  IF resources.t # "map" THEN [exc |-> TRUE]
                      ELSE [exc  |-> FALSE,
                            obj  |-> GetOr(resources, "limits", EmptyMap),
                            path |-> <<"deploy", "resources", "limits">>]

\* lines 42-43: the reservations mapping of a service and where it sits in
\* service_config; exc when a .get is applied to something that has none
lookup_reservations(service_config) ==
    IF service_config.t # "map" THEN [exc |-> TRUE]
    ELSE LET deploy == GetOr(service_config, "deploy", EmptyMap)
         IN  IF deploy.t # "map" THEN [exc |-> TRUE]
             ELSE LET resources == GetOr(deploy, "resources", EmptyMap)
                  IN  IF resources.t # "map" THEN [exc |-> TRUE]
                      ELSE [exc  |-> FALSE,
                            obj  |-> GetOr(resources, "reservations", EmptyMap),
                            path |-> <<"deploy", "resources", "reservations">>]

\* line 50: max(32, int(old_mb * factor))
scale(old_mb, factor) ==
    LET scaled == (old_mb * factor.num) \div factor.den
    IN  IF scaled > HardFloor THEN scaled ELSE HardFloor

\* mutant of no_change: the comparison is lost, every value is rewritten
no_change_never(old_mb, new_mb) == FALSE

\* line 52: old_mb == new_mb
no_change(old_mb, new_mb) == old_mb = new_mb

\* reduce_service_reservation(service_name, service_config, factor):
\*   config: service_config after the call, ret: the change or None,
\*   warned: the except branch printed a warning

\* lines 45-46 and 52-53: return None
reduce_skip(service_config) ==
    [config |-> service_config, ret |-> None, warned |-> FALSE]

\* mutant of reduce_except: the exception is swallowed without a warning
reduce_except_silent(service_config) ==
    [config |-> service_config, ret |-> None, warned |-> FALSE]

\* lines 64-66: the warning, return None
reduce_except(service_config) ==
    [config |-> service_config, ret |-> None, warned |-> TRUE]

\* mutant of reduce_write: the limit is reduced along with the reservation
reduce_write_limits(service_name, service_config, path, old_value, old_mb, new_mb) ==
    IF no_change(old_mb, new_mb) THEN reduce_skip(service_config)
    ELSE [config |-> SetPath(SetPath(service_config, Append(path, "memory"),
                                     Str(format_memory(new_mb))),
                             <<"deploy", "resources", "limits", "memory">>,
                             Str(format_memory(new_mb))),
          ret    |-> [service |-> service_name,
                      old     |-> old_value,
                      new     |-> format_memory(new_mb),
                      old_mb  |-> old_mb,
                      new_mb  |-> new_mb],
          warned |-> FALSE]

\* lines 52-63
reduce_write(service_name, service_config, path, old_value, old_mb, new_mb) ==
    IF no_change(old_mb, new_mb) THEN reduce_skip(service_config)
    ELSE [config |-> SetPath(service_config, Append(path, "memory"),
                             Str(format_memory(new_mb))),
          ret    |-> [service |-> service_name,
                      old     |-> old_value,
                      new     |-> format_memory(new_mb),
                      old_mb  |-> old_mb,
                      new_mb  |-> new_mb],
          warned |-> FALSE]

\* lines 49-50, given what parse_memory made of old_value
reduce_parsed(service_name, service_config, factor, path, old_value, p) ==
    IF ~p.ok THEN reduce_except(service_config)
    ELSE reduce_write(service_name, service_config, path, old_value,
                      p.mb, scale(p.mb, factor))

\* lines 45-49, given the reservations found
reduce_found(service_name, service_config, factor, look) ==
    IF look.exc THEN reduce_except(service_config)
    ELSE IF look.obj.t # "map"
         THEN reduce_except(service_config)     \* 'memory' in None: TypeError
    ELSE IF ~Has(look.obj, "memory") THEN reduce_skip(service_config)
    ELSE reduce_parsed(service_name, service_config, factor, look.path,
                       Get(look.obj, "memory"),
                       parse_memory(Get(look.obj, "memory")))

reduce_service_reservation(service_name, service_config, factor) ==
    reduce_found(service_name, service_config, factor,
                 lookup_reservations(service_config))

-----------------------------------------------------------------------------
(* Specification SpecReserve: reduce-reservations.py run, and run again,   *)
(* on a bounded compose file.                                              *)

Mem(txt) == MapNode(<<[k |-> "memory", v |-> txt]>>)

Limits2G == Mem(Str(<<"2", "G">>))

\* the reservation values of the enumerated compose files
ReservationValues ==
    { Str(<<"1","0","0","0","M">>), Str(<<"5","0","M">>), Str(<<"1","G">>),
      Str(<<"3","2","M">>), Str(<<"1","6","M">>), Str(<<"b","o","g","u","s">>),
      IntNode(100) }

\* the deploy sections of the enumerated compose files
DeployNodes ==
    { None,
      EmptyMap,
      MapNode(<<[k |-> "resources", v |-> MapNode(<<[k |-> "limits", v |-> Limits2G]>>)]>>),
      MapNode(<<[k |-> "resources", v |-> MapNode(<<[k |-> "limits", v |-> Limits2G],
                                                    [k |-> "reservations", v |-> EmptyMap]>>)]>>) }
    \cup
    { MapNode(<<[k |-> "resources", v |-> MapNode(<<[k |-> "limits", v |-> Limits2G],
                                                    [k |-> "reservations", v |-> Mem(x)]>>)]>>)
        : x \in ReservationValues }

Image == [k |-> "image", v |-> Str(<<"img">>)]

ServiceConfigs ==
    {MapNode(<<Image>>)} \cup {MapNode(<<Image, [k |-> "deploy", v |-> d]>>) : d \in DeployNodes}

\* the i-th service of an enumerated compose file
ServiceNames == <<"web", "db", "cache", "api", "queue">>

ServiceLists ==
    UNION { [1..n -> ServiceConfigs] : n \in 0..MaxServices }

ComposeFile(cfgs) ==
    MapNode(<<[k |-> "services",
               v |-> MapNode([i \in 1..Len(cfgs) |-> [k |-> ServiceNames[i], v |-> cfgs[i]]])]>>)

ComposeFiles == {ComposeFile(cfgs) : cfgs \in ServiceLists} \cup {EmptyMap}

Factors == {Factor(1, 2), Factor(3, 4), Factor(1, 1), Factor(3, 2)}

\* main, lines 70-80: --factor, --dry-run, --min-memory
ReserveArgs ==
    [factor : Factors, dry_run : BOOLEAN, min_memory : {32, 64}]

ReserveInit ==
    /\ file \in ComposeFiles
    /\ args \in ReserveArgs
    /\ pc = "start"
    /\ data = None /\ idx = 0 /\ changes = <<>> /\ stderr = <<>>
    /\ last = None /\ runs = <<>>
    /\ ParseIdle
    /\ EnvIdle
    /\ DryIdle
    /\ DiffIdle

\* main, lines 82-95: load the file, exit 1 without a services section
ReserveLoad ==
    /\ pc = "start"
    /\ data' = file
    /\ pc' = IF Has(file, "services") THEN "loop" ELSE "exit1"
    /\ idx' = 1
    /\ UNCHANGED <<file, args, changes, stderr, last, runs, ParseVars, EnvVars, DryVars, DiffVars>>

\* main, lines 98-100: what the loop does with the result r of the call
ReserveCollect(item, r) ==
    /\ data' = Put(data, "services", Put(Get(data, "services"), item.k, r.config))
    /\ changes' = IF r.ret # None THEN Append(changes, r.ret) ELSE changes
    /\ stderr' = IF r.warned THEN Append(stderr, item.k) ELSE stderr
    /\ last' = [service |-> item.k, before |-> data, ret |-> r.ret,
                warned |-> r.warned]

\* main, lines 97-100: one iteration of the loop over services.items()
ReserveStep ==
    /\ pc = "loop"
    /\ idx <= Len(Get(data, "services").kv)
    /\ ReserveCollect(Get(data, "services").kv[idx],
                      reduce_service_reservation(Get(data, "services").kv[idx].k,
                                                 Get(data, "services").kv[idx].v,
                                                 args.factor))
    /\ idx' = idx + 1
    /\ UNCHANGED <<file, args, pc, runs, ParseVars, EnvVars, DryVars, DiffVars>>

\* main, lines 102-131: report, and write the file unless --dry-run; with
\* no change the run returns before it writes
ReserveFinish ==
    /\ pc = "loop"
    /\ idx > Len(Get(data, "services").kv)
    /\ LET save == changes # <<>> /\ ~args.dry_run
       IN  /\ file' = IF save THEN data ELSE file
           /\ runs' = Append(runs, [before  |-> file,
                                    changes |-> changes,
                                    stderr  |-> stderr,
                                    saved   |-> save,
                                    exit    |-> 0])
    /\ pc' = "done"
    /\ UNCHANGED <<args, data, idx, changes, stderr, last, ParseVars, EnvVars, DryVars, DiffVars>>

\* the script is started again on the file the last run left
ReserveRerun ==
    /\ pc = "done"
    /\ Len(runs) < MaxRuns
    /\ pc' = "start"
    /\ data' = None /\ idx' = 0 /\ changes' = <<>> /\ stderr' = <<>> /\ last' = None
    /\ UNCHANGED <<file, args, runs, ParseVars, EnvVars, DryVars, DiffVars>>

ReserveNext == ReserveLoad \/ ReserveStep \/ ReserveFinish \/ ReserveRerun

SpecReserve == ReserveInit /\ [][ReserveNext]_vars

-----------------------------------------------------------------------------
(* Claims about reduce-reservations.py (SpecReserve).                      *)

C_MemPath == <<"deploy", "resources", "reservations", "memory">>

\* node m holds a value under the keys of path, through mappings only
RECURSIVE C_HasPath(_, _)
C_HasPath(m, path) ==
    /\ m.t = "map"
    /\ Has(m, path[1])
    /\ Len(path) = 1 \/ C_HasPath(Get(m, path[1]), Tail(path))

RECURSIVE C_AtPath(_, _)
C_AtPath(m, path) ==
    IF Len(path) = 1 THEN Get(m, path[1]) ELSE C_AtPath(Get(m, path[1]), Tail(path))

C_Service(doc, name) == Get(Get(doc, "services"), name)

C_NameAt(doc, i) == Get(doc, "services").kv[i].k

C_Count(doc) == Len(Get(doc, "services").kv)

\* the service has a reservation and it parses
C_Parsable(cfg) ==
    C_HasPath(cfg, C_MemPath) /\ parse_memory(C_AtPath(cfg, C_MemPath)).ok

\* the service has a reservation and it does not parse
C_Unparsable(cfg) ==
    C_HasPath(cfg, C_MemPath) /\ ~parse_memory(C_AtPath(cfg, C_MemPath)).ok

C_Megabytes(cfg) == parse_memory(C_AtPath(cfg, C_MemPath)).mb

\* max(floor, truncate(old * factor))
C_Scaled(old, factor, floor) ==
    IF (old * factor.num) \div factor.den < floor
    THEN floor ELSE (old * factor.num) \div factor.den

C_HasChange(chs, name) == \E k \in 1..Len(chs) : chs[k].service = name

\* the file the current run started from
C_RunStart == IF pc = "done" THEN runs[Len(runs)].before ELSE file

\* the file as run r left it
C_FileAfter(r) == IF r < Len(runs) THEN runs[r + 1].before ELSE file

\* C1 as stated: ScaleMemory is idempotent, so a second run of the script
\* with the same factor on the file the first run wrote changes nothing:
\* no ChangeRecord and nothing written.
C1_SecondRunIsNoop ==
    (Len(runs) >= 2 /\ ~args.dry_run) =>
        runs[2].changes = <<>> /\ ~runs[2].saved

\* C1 as amended: the second of two successive applications with the same
\* factor is a no-op exactly when the value the first one wrote is a fixed
\* point of the scaling, max(32, trunc(v * factor)) = v, as it is at the
\* floor 32 for a factor <= 1; a service the first application left alone
\* is left alone by the second.
C1_NoopAtFixedPoint ==
    ~args.dry_run =>
      \A r \in 1..(Len(runs) - 1) :
        \A i \in 1..C_Count(runs[r].before) :
            LET name == C_NameAt(runs[r].before, i)
                one  == runs[r].changes
                two  == runs[r + 1].changes
            IN  /\ ~C_HasChange(one, name) => ~C_HasChange(two, name)
                /\ \A k \in 1..Len(one) :
                     one[k].service = name =>
                       /\ C_HasChange(two, name)
                            <=> C_Scaled(one[k].new_mb, args.factor, 32) # one[k].new_mb
                       /\ (one[k].new_mb = 32 /\ args.factor.num <= args.factor.den)
                            => /\ ~C_HasChange(two, name)
                               /\ C_Service(C_FileAfter(r + 1), name)
                                    = C_Service(C_FileAfter(r), name)

\* the first run scaled a reservation down to the floor and the second run
\* had nothing to change
C1_Witness ==
    /\ Len(runs) = 2 /\ ~args.dry_run
    /\ \E k \in 1..Len(runs[1].changes) : runs[1].changes[k].new_mb = 32
    /\ runs[1].saved
    /\ runs[2].changes = <<>>

\* C2 as stated: after ScaleMemory on a present, parsable reservation old
\* the reservation is max(floor, truncate(old * factor)) megabytes, floor
\* being the caller's --min-memory (default 32), so never below that floor.
C2_FloorIsMinMemory ==
    (last # None /\ C_Parsable(C_Service(last.before, last.service))) =>
        /\ C_Megabytes(C_Service(data, last.service))
             = C_Scaled(C_Megabytes(C_Service(last.before, last.service)),
                        args.factor, args.min_memory)
        /\ C_Megabytes(C_Service(data, last.service)) >= args.min_memory

\* C3 as stated: a reservation that cannot be parsed aborts the loop over
\* the services: no later service is modified, and the run is not reported
\* as a success (it does not go on to write the file and print "Updated").
C3_ParseErrorAborts ==
    pc \in {"loop", "done"} =>
        \A i \in 1..C_Count(C_RunStart) :
            C_Unparsable(C_Service(C_RunStart, C_NameAt(C_RunStart, i))) =>
                /\ \A j \in (i + 1)..C_Count(C_RunStart) :
                       C_Service(data, C_NameAt(C_RunStart, j))
                         = C_Service(C_RunStart, C_NameAt(C_RunStart, j))
                /\ pc = "done" => ~runs[Len(runs)].saved

\* C3 as amended: a reservation that cannot be parsed is not fatal: that
\* service gets a warning, no ChangeRecord and is left as it was; the loop
\* goes on, so every service whose reservation parses to a value that the
\* scaling changes is scaled and recorded, whether it comes before or after;
\* the run ends normally and writes the file when there is a change and no
\* --dry-run.
C3_ParseErrorSkipsService ==
    pc = "done" =>
        /\ runs[Len(runs)].exit = 0
        /\ runs[Len(runs)].saved = (changes # <<>> /\ ~args.dry_run)
        /\ \A i \in 1..C_Count(C_RunStart) :
             LET name == C_NameAt(C_RunStart, i)
                 was  == C_Service(C_RunStart, name)
             IN  /\ C_Unparsable(was) =>
                       /\ C_Service(data, name) = was
                       /\ ~C_HasChange(changes, name)
                       /\ \E k \in 1..Len(stderr) : stderr[k] = name
                 /\ (C_Parsable(was)
                       /\ C_Scaled(C_Megabytes(was), args.factor, 32) # C_Megabytes(was)) =>
                       /\ C_HasChange(changes, name)
                       /\ C_Megabytes(C_Service(data, name))
                            = C_Scaled(C_Megabytes(was), args.factor, 32)

\* the first service could not be parsed and the second was scaled
C3_Witness ==
    /\ pc = "done"
    /\ C_Count(C_RunStart) >= 2
    /\ C_Unparsable(C_Service(C_RunStart, C_NameAt(C_RunStart, 1)))
    /\ C_HasChange(changes, C_NameAt(C_RunStart, 2))
    /\ runs[Len(runs)].saved

\* C4: reduce_service_reservation on a service without a
\* deploy.resources.reservations.memory key (deploy, resources or
\* reservations may be missing too) returns no ChangeRecord and leaves the
\* whole document as it was: nothing added, removed or rewritten.
C4_MissingFieldNoop ==
    (last # None /\ ~C_HasPath(C_Service(last.before, last.service), C_MemPath)) =>
        /\ last.ret = None
        /\ data = last.before

\* the call was made on a service that has limits but no reservations
C4_Witness ==
    /\ last # None
    /\ ~C_HasPath(C_Service(last.before, last.service), <<"deploy", "resources", "reservations">>)
    /\ C_HasPath(C_Service(last.before, last.service), <<"deploy", "resources", "limits", "memory">>)
    /\ last.ret = None
    /\ ~last.warned

-----------------------------------------------------------------------------
(* reduce-cassandra.py, reduce-pulsar-memory.py, reduce-qdrant.py: the     *)
(* memory limit and reservation of a service.  The three functions begin   *)
(* with the same statements; update_service indents its change lines.      *)

\* m[path[1]]...[path[n]]
RECURSIVE GetPath(_, _)
GetPath(m, path) ==
    IF path = <<>> THEN m ELSE GetPath(Get(m, path[1]), Tail(path))

\* the default 'unset' of .get('memory', 'unset')
Unset == Str(<<"unset">>)

ResourcesPath == <<"deploy", "resources">>

\* if key not in <the mapping at path>: <the mapping at path>[key] = {}
ensure_mapping(service_config, path, key) ==
    IF Has(GetPath(service_config, path), key) THEN service_config
    ELSE SetPath(service_config, Append(path, key), EmptyMap)

\* mutant of ensure_resources: limits and reservations are always replaced by
\* new empty mappings
ensure_resources_resets(service_config) ==
    SetPath(
      SetPath(
        ensure_mapping(ensure_mapping(service_config, <<>>, "deploy"),
                       <<"deploy">>, "resources"),
        <<"deploy", "resources", "limits">>, EmptyMap),
      <<"deploy", "resources", "reservations">>, EmptyMap)

\* update_service lines 47-54 (update_cassandra 26-33, update_qdrant 34-41)
ensure_resources(service_config) ==
    ensure_mapping(
      ensure_mapping(
        ensure_mapping(ensure_mapping(service_config, <<>>, "deploy"),
                       <<"deploy">>, "resources"),
        ResourcesPath, "limits"),
      ResourcesPath, "reservations")

\* lines 56-57: resources[which].get('memory', 'unset')
old_memory(service_config, which) ==
    GetOr(GetPath(service_config, Append(ResourcesPath, which)), "memory", Unset)

\* lines 59-60: both assignments
set_memory(service_config, settings) ==
    SetPath(SetPath(service_config, <<"deploy", "resources", "limits", "memory">>,
                    Str(settings.memory_limit)),
            <<"deploy", "resources", "reservations", "memory">>,
            Str(settings.memory_reservation))

\* lines 62-63: f"{indent}memory limit: {old_limit} -> {settings['memory_limit']}"
\* and the same for the reservation
memory_changes(service_config, settings, indent) ==
    << indent \o <<"memory limit: ">> \o str(old_memory(service_config, "limits"))
         \o <<" -> ">> \o settings.memory_limit,
       indent \o <<"memory reservation: ">>
         \o str(old_memory(service_config, "reservations"))
         \o <<" -> ">> \o settings.memory_reservation >>

\* lines 56-63 on a service that has its four mappings
update_memory_ensured(service_config, settings, indent) ==
    [config  |-> set_memory(service_config, settings),
     changes |-> memory_changes(service_config, settings, indent)]

\* lines 46-63
update_memory(service_config, settings, indent) ==
    update_memory_ensured(ensure_resources(service_config), settings, indent)

-----------------------------------------------------------------------------
(* The environment of a service: a list of "KEY=VALUE" strings or a        *)
(* mapping.                                                                *)

\* '=' in item
HasEq(s) == \E i \in 1..Len(s) : s[i] = "="

FirstEq(s) == CHOOSE i \in 1..Len(s) : s[i] = "=" /\ \A j \in 1..(i - 1) : s[j] # "="

\* k of k, v = item.split('=', 1)
split_key(s) == SubSeq(s, 1, FirstEq(s) - 1)

\* mutant of split_value: the value is what follows the last '=' of the item
split_value_last(s) ==
    SubSeq(s, (CHOOSE i \in 1..Len(s) : s[i] = "=" /\ \A j \in (i + 1)..Len(s) : s[j] # "=") + 1,
           Len(s))

\* v of k, v = item.split('=', 1): everything after the key and its '='
split_value(s) == SubSeq(s, Len(split_key(s)) + 2, Len(s))

\* the body of the loop: if '=' in item: k, v = item.split('=', 1); env_dict[k] = v
add_item(env_dict, item) ==
    IF HasEq(str(item))
    THEN Put(env_dict, split_key(str(item)), Str(split_value(str(item))))
    ELSE env_dict

\* env_dict = {}; for item in env: ...
RECURSIVE env_list_to_dict(_)
env_list_to_dict(items) ==
    IF items = <<>> THEN EmptyMap
    ELSE add_item(env_list_to_dict(SubSeq(items, 1, Len(items) - 1)), items[Len(items)])

\* [f"{k}={v}" for k, v in env_dict.items()]
dict_to_env_list(env_dict) ==
    [i \in 1..Len(env_dict.kv) |->
        Str(env_dict.kv[i].k \o <<"=">> \o str(env_dict.kv[i].v))]

\* mutant of write_env_list: the dict is written back instead of the list
write_env_list_as_dict(service_config, env_dict) ==
    Put(service_config, "environment", env_dict)

\* service_config['environment'] = [f"{k}={v}" for k, v in env_dict.items()]
write_env_list(service_config, env_dict) ==
    Put(service_config, "environment", ListNode(dict_to_env_list(env_dict)))

\* if 'environment' not in service_config: service_config['environment'] = {}
ensure_environment(service_config) ==
    IF Has(service_config, "environment") THEN service_config
    ELSE Put(service_config, "environment", EmptyMap)

\* mutant of upsert_in_dict: the key is deleted before it is set, so that an
\* existing key moves to the end
upsert_in_dict_moves(service_config, env_dict, key, value) ==
    [config |-> write_env_list(service_config,
                  Put(IF Has(env_dict, key) THEN Del(env_dict, key) ELSE env_dict,
                      key, Str(value))),
     old    |-> GetOr(env_dict, key, Unset)]

\* the list branch with one variable, given env_dict:
\*   old = env_dict.get(key, 'unset'); env_dict[key] = value; write the list
upsert_in_dict(service_config, env_dict, key, value) ==
    [config |-> write_env_list(service_config, Put(env_dict, key, Str(value))),
     old    |-> GetOr(env_dict, key, Unset)]

\* the mapping branch with one variable: old = env.get(key, 'unset'); env[key] = value
upsert_in_mapping(service_config, key, value) ==
    [config |-> Put(service_config, "environment",
                    Put(Get(service_config, "environment"), key, Str(value))),
     old    |-> GetOr(Get(service_config, "environment"), key, Unset)]

\* if isinstance(env, list): ... else: ..., for a service that has an environment
upsert_env(service_config, key, value) ==
    IF Get(service_config, "environment").t = "list"
    THEN upsert_in_dict(service_config,
                        env_list_to_dict(Get(service_config, "environment").items),
                        key, value)
    ELSE upsert_in_mapping(service_config, key, value)

-----------------------------------------------------------------------------
(* update_cassandra, update_service, update_qdrant.  Each edits the        *)
(* service's mapping in place and returns the list of changes: here the    *)
(* edited mapping and the list.                                            *)

DEFAULT_SETTINGS ==
    [memory_limit       |-> <<"6", "0", "0", "M">>,
     memory_reservation |-> <<"5", "0", "0", "M">>,
     heap_size          |-> <<"2", "0", "0", "M">>]

JVM_OPTS == <<"JVM_OPTS">>

\* f"-Xms{heap} -Xmx{heap} -Dcassandra.skip_wait_for_gossip_to_settle=0"
new_jvm_opts(heap) ==
    <<"-Xms">> \o heap \o <<" -Xmx">> \o heap
      \o <<" -Dcassandra.skip_wait_for_gossip_to_settle", "=", "0">>

\* changes.append(f"JVM_OPTS: {old_jvm}"); changes.append(f"      -> {new_jvm_opts}")
cassandra_changes(so_far, u, new) ==
    [config  |-> u.config,
     changes |-> so_far \o << <<"JVM_OPTS: ">> \o str(u.old),
                               <<"      -> ">> \o new >>]

\* lines 46-70, after the memory update m
cassandra_env(m, settings) ==
    cassandra_changes(m.changes,
                      upsert_env(ensure_environment(m.config), JVM_OPTS,
                                 new_jvm_opts(settings.heap_size)),
                      new_jvm_opts(settings.heap_size))

update_cassandra(service_config, settings) ==
    cassandra_env(update_memory(service_config, settings, <<>>), settings)

PulsarNames == <<"zookeeper", "bookie", "pulsar", "pulsar-init">>

PULSAR_STACK_SETTINGS ==
    [zookeeper |->
       [memory_limit       |-> <<"3", "0", "0", "M">>,
        memory_reservation |-> <<"2", "0", "0", "M">>,
        jvm_env_var        |-> <<"PULSAR_MEM">>,
        jvm_settings       |-> <<"-Xms128m -Xmx128m -XX:MaxDirectMemorySize", "=", "64m">>],
     bookie |->
       [memory_limit       |-> <<"6", "0", "0", "M">>,
        memory_reservation |-> <<"4", "0", "0", "M">>,
        jvm_env_var        |-> <<"BOOKIE_MEM">>,
        jvm_settings       |-> <<"-Xms128m -Xmx128m -XX:MaxDirectMemorySize", "=", "128m">>],
     pulsar |->
       [memory_limit       |-> <<"5", "1", "2", "M">>,
        memory_reservation |-> <<"4", "0", "0", "M">>,
        jvm_env_var        |-> <<"PULSAR_MEM">>,
        jvm_settings       |-> <<"-Xms192m -Xmx192m -XX:MaxDirectMemorySize", "=", "192m">>],
     pulsar_init |->
       [memory_limit       |-> <<"1", "2", "8", "M">>,
        memory_reservation |-> <<"1", "2", "8", "M">>,
        jvm_env_var        |-> <<"PULSAR_MEM">>,
        jvm_settings       |-> <<"-Xms64m -Xmx64m -XX:MaxDirectMemorySize", "=", "64m">>]]

\* PULSAR_STACK_SETTINGS[service_name]; a record field cannot be named pulsar-init
pulsar_settings(service_name) ==
    IF service_name = "pulsar-init" THEN PULSAR_STACK_SETTINGS.pulsar_init
    ELSE PULSAR_STACK_SETTINGS[service_name]

\* changes.append(f"  {jvm_var}: {old_jvm} -> {settings['jvm_settings']}")
service_changes(so_far, u, settings) ==
    [config  |-> u.config,
     changes |-> Append(so_far,
                        <<"  ">> \o settings.jvm_env_var \o <<": ">> \o str(u.old)
                          \o <<" -> ">> \o settings.jvm_settings)]

\* lines 65-90, after the memory update m
service_env(m, settings) ==
    service_changes(m.changes,
                    upsert_env(ensure_environment(m.config), settings.jvm_env_var,
                               settings.jvm_settings),
                    settings)

update_service(service_name, service_config, settings) ==
    service_env(update_memory(service_config, settings, <<"  ">>), settings)

QDRANT_ENV_VARS ==
    << [key |-> <<"QDRANT__STORAGE__MEMMAP_THRESHOLD_KB">>, value |-> <<"1">>],
       [key |-> <<"QDRANT__STORAGE__ON_DISK_PAYLOAD">>,     value |-> <<"true">>] >>

\* one turn of for key, value in QDRANT_ENV_VARS.items(), on the dict or mapping env:
\*   old_val = env.get(key, 'unset'); env[key] = value
\*   changes.append(f"{key}: {old_val} -> {value}")
qdrant_var(r, var) ==
    [env     |-> Put(r.env, var.key, Str(var.value)),
     changes |-> Append(r.changes,
                        var.key \o <<": ">> \o str(GetOr(r.env, var.key, Unset))
                          \o <<" -> ">> \o var.value)]

\* the loop over the first n variables of QDRANT_ENV_VARS
RECURSIVE qdrant_vars(_, _, _)
qdrant_vars(env, so_far, n) ==
    IF n = 0 THEN [env |-> env, changes |-> so_far]
    ELSE qdrant_var(qdrant_vars(env, so_far, n - 1), QDRANT_ENV_VARS[n])

\* the list branch, lines 60-73: one conversion, the loop, one write-back
qdrant_list(service_config, r) ==
    [config |-> write_env_list(service_config, r.env), changes |-> r.changes]

\* the mapping branch, lines 74-79
qdrant_mapping(service_config, r) ==
    [config |-> Put(service_config, "environment", r.env), changes |-> r.changes]

\* lines 54-81, after the memory update, the service having an environment
qdrant_env(service_config, so_far) ==
    IF Get(service_config, "environment").t = "list"
    THEN qdrant_list(service_config,
                     qdrant_vars(env_list_to_dict(Get(service_config, "environment").items),
                                 so_far, Len(QDRANT_ENV_VARS)))
    ELSE qdrant_mapping(service_config,
                        qdrant_vars(Get(service_config, "environment"),
                                    so_far, Len(QDRANT_ENV_VARS)))

qdrant_after_memory(m) == qdrant_env(ensure_environment(m.config), m.changes)

update_qdrant(service_config, settings) ==
    qdrant_after_memory(update_memory(service_config, settings, <<>>))

-----------------------------------------------------------------------------
(* Specification SpecEnv: calls of the three update functions, in any      *)
(* order, on one service.                                                  *)

\* the deploy block of the service before the first call: absent, or with any
\* part of deploy.resources.{limits,reservations}.memory
DeployBlocks ==
    { None,
      EmptyMap,
      MapNode(<< [k |-> "resources", v |-> EmptyMap] >>),
      MapNode(<< [k |-> "resources", v |->
                    MapNode(<< [k |-> "limits", v |-> EmptyMap] >>)] >>),
      MapNode(<< [k |-> "resources", v |->
                    MapNode(<< [k |-> "limits", v |-> Mem(Str(<<"1", "0", "0", "0", "M">>))] >>)] >>),
      MapNode(<< [k |-> "resources", v |->
                    MapNode(<< [k |-> "reservations", v |-> Mem(Str(<<"8", "0", "0", "M">>))] >>)] >>),
      MapNode(<< [k |-> "resources", v |->
                    MapNode(<< [k |-> "limits", v |-> Mem(Str(<<"2", "G">>))],
                               [k |-> "reservations", v |-> Mem(Str(<<"1", "G">>))] >>)] >>) }

\* entries of an environment in list form: two assignments of one key, a bare
\* name, a value holding '=', and assignments of keys the functions set
EnvItems ==
    { Str(<<"A", "=", "1">>),
      Str(<<"A", "=", "3">>),
      Str(<<"FLAG">>),
      Str(<<"X", "=", "a", "=", "b">>),
      Str(<<"PULSAR_MEM", "=", "-Xmx2G">>),
      Str(<<"QDRANT__STORAGE__ON_DISK_PAYLOAD", "=", "false">>) }

\* entries of an environment in mapping form
EnvPairs ==
    { [k |-> <<"A">>, v |-> Str(<<"1">>)],
      [k |-> <<"X">>, v |-> Str(<<"a", "=", "b">>)],
      [k |-> <<"JVM_OPTS">>, v |-> Str(<<"-Xmx1G">>)],
      [k |-> <<"QDRANT__STORAGE__ON_DISK_PAYLOAD">>, v |-> IntNode(0)] }

EnvLists == UNION { [1..n -> EnvItems] : n \in 0..MaxEnv }

EnvMappings ==
    { kv \in UNION { [1..n -> EnvPairs] : n \in 0..MaxEnv } :
        \A i, j \in 1..Len(kv) : kv[i].k = kv[j].k => i = j }

\* the environment of the service before the first call: absent, a list or a mapping
EnvBlocks ==
    {None} \cup { ListNode(items) : items \in EnvLists }
           \cup { MapNode(kv) : kv \in EnvMappings }

\* a mapping with the entries whose value is present
Entry(k, v) == IF v = None THEN <<>> ELSE << [k |-> k, v |-> v] >>

Service(d, e) == MapNode(<<Image>> \o Entry("deploy", d) \o Entry("environment", e))

\* the service before the first call: every deploy block with an absent, an
\* empty list and an empty mapping environment, and every environment with
\* no deploy block
EnvServices ==
    { Service(d, e) : d \in DeployBlocks, e \in {None, ListNode(<<>>), EmptyMap} }
      \cup { Service(None, e) : e \in EnvBlocks }

\* --limit, --reservation and --heap, given or left at their defaults
CassandraSettings ==
    { DEFAULT_SETTINGS,
      [memory_limit       |-> <<"5", "1", "2", "M">>,
       memory_reservation |-> <<"2", "5", "6", "M">>,
       heap_size          |-> <<"1", "2", "8", "M">>] }

QDRANT_DEFAULT_SETTINGS ==
    [memory_limit       |-> <<"6", "0", "0", "M">>,
     memory_reservation |-> <<"5", "0", "0", "M">>]

QdrantSettings ==
    { QDRANT_DEFAULT_SETTINGS,
      [memory_limit       |-> <<"1", "G">>,
       memory_reservation |-> <<"1", "G">>] }

EnvInit ==
    /\ svc_config \in EnvServices
    /\ call = None /\ prev = None /\ ret = <<>> /\ ncalls = 0
    /\ ParseIdle
    /\ ReserveIdle
    /\ DryIdle
    /\ DiffIdle

\* a call that returned r
EnvCall(c, r) ==
    /\ prev' = svc_config
    /\ svc_config' = r.config
    /\ ret' = r.changes
    /\ call' = c
    /\ ncalls' = ncalls + 1
    /\ UNCHANGED <<ParseVars, ReserveVars, DryVars, DiffVars>>

UpdateCassandra ==
    /\ ncalls < MaxCalls
    /\ \E settings \in CassandraSettings :
         EnvCall([fn |-> "update_cassandra", settings |-> settings,
                  upserts |-> << [key |-> JVM_OPTS,
                               value |-> new_jvm_opts(settings.heap_size)] >>],
                 update_cassandra(svc_config, settings))

UpdateService ==
    /\ ncalls < MaxCalls
    /\ \E i \in 1..Len(PulsarNames) :
         EnvCall([fn |-> "update_service", settings |-> pulsar_settings(PulsarNames[i]),
                  upserts |-> << [key |-> pulsar_settings(PulsarNames[i]).jvm_env_var,
                               value |-> pulsar_settings(PulsarNames[i]).jvm_settings] >>],
                 update_service(PulsarNames[i], svc_config,
                                pulsar_settings(PulsarNames[i])))

UpdateQdrant ==
    /\ ncalls < MaxCalls
    /\ \E settings \in QdrantSettings :
         EnvCall([fn |-> "update_qdrant", settings |-> settings,
                  upserts |-> QDRANT_ENV_VARS],
                 update_qdrant(svc_config, settings))

EnvNext == UpdateCassandra \/ UpdateService \/ UpdateQdrant

SpecEnv == EnvInit /\ [][EnvNext]_vars

-----------------------------------------------------------------------------
(* Claims about the update functions, under SpecEnv.                       *)

C_LimitPath == <<"deploy", "resources", "limits", "memory">>

\* the text of the value at path before the call, "unset" when there is none
C_OldText(m, path) ==
    IF C_HasPath(m, path) THEN str(C_AtPath(m, path)) ELSE <<"unset">>

\* update_service indents its lines by two spaces
C_Indent == IF call.fn = "update_service" THEN <<"  ">> ELSE <<>>

C_Called == call # None

\* C9: whichever of the mappings deploy, resources, limits and reservations the
\* service lacks, a call leaves deploy.resources.limits.memory and
\* deploy.resources.reservations.memory at the requested values and returns,
\* first, the record of the limit and, second, the record of the reservation,
\* each with the previous value of the field, or "unset" when it had none
C9_SetScalarCreatesAncestors ==
    C_Called =>
      /\ C_HasPath(svc_config, C_LimitPath)
      /\ C_AtPath(svc_config, C_LimitPath) = Str(call.settings.memory_limit)
      /\ C_HasPath(svc_config, C_MemPath)
      /\ C_AtPath(svc_config, C_MemPath) = Str(call.settings.memory_reservation)
      /\ Len(ret) >= 2
      /\ ret[1] = C_Indent \o <<"memory limit: ">> \o C_OldText(prev, C_LimitPath)
                    \o <<" -> ">> \o call.settings.memory_limit
      /\ ret[2] = C_Indent \o <<"memory reservation: ">> \o C_OldText(prev, C_MemPath)
                    \o <<" -> ">> \o call.settings.memory_reservation

\* the example of the claim: limits.memory "1000M", no reservations, 600M and 500M
C9_Witness ==
    /\ C_Called
    /\ call.fn = "update_cassandra"
    /\ call.settings = DEFAULT_SETTINGS
    /\ C_HasPath(prev, C_LimitPath)
    /\ ~C_HasPath(prev, <<"deploy", "resources", "reservations">>)
    /\ ret[1] = <<"memory limit: ", "1", "0", "0", "0", "M", " -> ", "6", "0", "0", "M">>
    /\ ret[2] = <<"memory reservation: ", "unset", " -> ", "5", "0", "0", "M">>
    /\ C_AtPath(svc_config, C_MemPath) = Str(<<"5", "0", "0", "M">>)

\* the shape of the environment of service m: "none", "list" or "map"
C_Shape(m) == IF Has(m, "environment") THEN Get(m, "environment").t ELSE "none"

\* C8: a call leaves a list environment a list and a mapping environment a
\* mapping, and gives a service without environment a mapping; so does every
\* sequence of calls
C8_ShapePreserved ==
    C_Called =>
      /\ C_Shape(prev) = "list" => C_Shape(svc_config) = "list"
      /\ C_Shape(prev) = "map" => C_Shape(svc_config) = "map"
      /\ C_Shape(prev) = "none" => C_Shape(svc_config) = "map"

\* a second call on a list that the first call wrote back
C8_Witness ==
    /\ ncalls = 2
    /\ C_Shape(prev) = "list"
    /\ C_Shape(svc_config) = "list"
    /\ Len(Get(svc_config, "environment").items) = 3

\* the environment of service m as a sequence of entries, <<>> when absent
C_Env(m) == IF Has(m, "environment") THEN Get(m, "environment") ELSE EmptyMap

C_IsAssignment(s) == \E n \in 1..Len(s) : s[n] = "="

\* the position of the first '=' of an assignment
C_Eq(s) == CHOOSE n \in 1..Len(s) : s[n] = "=" /\ \A i \in 1..(n - 1) : s[i] # "="

\* the key and the value of an assignment: the texts before and after its first '='
C_KeyOf(s) == SubSeq(s, 1, C_Eq(s) - 1)

C_ValueOf(s) == SubSeq(s, C_Eq(s) + 1, Len(s))

\* the positions of items that assign a key no earlier item assigns
C_Firsts(items) ==
    { i \in 1..Len(items) :
        /\ C_IsAssignment(items[i].s)
        /\ \A j \in 1..(i - 1) :
             C_IsAssignment(items[j].s) => C_KeyOf(items[j].s) # C_KeyOf(items[i].s) }

\* the n-th smallest member of the set of numbers F
C_Nth(F, n) == CHOOSE i \in F : Cardinality({j \in F : j < i}) = n - 1

\* the last position of items that assigns key k
C_LastOf(items, k) ==
    CHOOSE i \in 1..Len(items) :
      /\ C_IsAssignment(items[i].s) /\ C_KeyOf(items[i].s) = k
      /\ \A j \in (i + 1)..Len(items) :
           C_IsAssignment(items[j].s) => C_KeyOf(items[j].s) # k

\* the canonical map of a list: its assignments, one per key, at the key's
\* first position with the key's last value
C_CanonAt(items, i) ==
    [k |-> C_KeyOf(items[i].s),
     v |-> Str(C_ValueOf(items[C_LastOf(items, C_KeyOf(items[i].s))].s))]

C_Canon(items) ==
    [n \in 1..Cardinality(C_Firsts(items)) |-> C_CanonAt(items, C_Nth(C_Firsts(items), n))]

\* the list whose entries are the "KEY=VALUE" texts of pairs
C_AsList(pairs) ==
    [n \in 1..Len(pairs) |-> Str(pairs[n].k \o <<"=">> \o str(pairs[n].v))]

\* a list of assignments with pairwise different keys
C_Clean(items) ==
    /\ \A i \in 1..Len(items) : C_IsAssignment(items[i].s)
    /\ \A i, j \in 1..Len(items) :
         C_KeyOf(items[i].s) = C_KeyOf(items[j].s) => i = j

\* the list conversion and back, on the environment of the service
C_RoundTrip(env) == dict_to_env_list(env_list_to_dict(env.items))

\* the list environments of the state: the one the latest call converted and
\* the one the service has now
C_Lists ==
    { C_Env(m) : m \in { n \in {prev, svc_config} : n # None /\ C_Shape(n) = "list" } }

\* C6 as claimed: an environment in list form comes back from the conversion to
\* the key->value map and back entry for entry, bare entries included
C6_RoundTripAsStated ==
    C_Called => \A env \in C_Lists : C_RoundTrip(env) = env.items

\* C6 as amended: a list of assignments with pairwise different keys comes back
\* from the conversion to the key->value map and back entry for entry, a value
\* that holds '=' included; of any other list only the assignments come back, one
\* per key, at the key's first position and with the key's last value
C6_RoundTripAmended ==
    /\ \A env \in C_Lists :
         /\ C_RoundTrip(env) = C_AsList(C_Canon(env.items))
         /\ C_Clean(env.items) => C_RoundTrip(env) = env.items
    /\ C_Called /\ C_Shape(prev) = "list" => C_Clean(C_Env(svc_config).items)

\* a list written back by a call, with an entry whose value holds '='
C6_Witness ==
    /\ C_Called
    /\ C_Shape(prev) = "list"
    /\ C_Env(prev).items = << Str(<<"FLAG">>), Str(<<"X", "=", "a", "=", "b">>) >>
    /\ call.fn = "update_cassandra"
    /\ Len(C_Env(svc_config).items) = 2
    /\ C_Env(svc_config).items[1] = Str(<<"X", "=", "a", "=", "b">>)
    /\ C_RoundTrip(C_Env(svc_config)) = C_Env(svc_config).items

\* the key->value entries of the environment of service m, in order
C_Pairs(m) ==
    IF C_Shape(m) = "list" THEN C_Canon(C_Env(m).items) ELSE C_Env(m).kv

C_NewPair(var) == [k |-> var.key, v |-> Str(var.value)]

\* the entries after setting var.key to var.value: in place when an entry has
\* the key, as the last entry when none has
C_Upsert(pairs, var) ==
    IF \E i \in 1..Len(pairs) : pairs[i].k = var.key
    THEN [i \in 1..Len(pairs) |-> IF pairs[i].k = var.key THEN C_NewPair(var) ELSE pairs[i]]
    ELSE Append(pairs, C_NewPair(var))

RECURSIVE C_UpsertAll(_, _, _)
C_UpsertAll(pairs, upserts, n) ==
    IF n = 0 THEN pairs ELSE C_Upsert(C_UpsertAll(pairs, upserts, n - 1), upserts[n])

C_ItemHasKey(item, key) == C_IsAssignment(item.s) /\ C_KeyOf(item.s) = key

\* the same on the entries of a list as they stand, every other entry kept
C_ListUpsert(items, var) ==
    IF \E i \in 1..Len(items) : C_ItemHasKey(items[i], var.key)
    THEN [i \in 1..Len(items) |->
            IF C_ItemHasKey(items[i], var.key)
            THEN Str(var.key \o <<"=">> \o var.value) ELSE items[i]]
    ELSE Append(items, Str(var.key \o <<"=">> \o var.value))

RECURSIVE C_ListUpsertAll(_, _, _)
C_ListUpsertAll(items, upserts, n) ==
    IF n = 0 THEN items
    ELSE C_ListUpsert(C_ListUpsertAll(items, upserts, n - 1), upserts[n])

\* C7 as claimed: setting a variable in a list environment replaces the entry
\* of its key where it stands, or appends the entry when no entry has the key,
\* and leaves every other entry of the list as it was
C7_UpsertKeepsEveryEntry ==
    C_Called /\ C_Shape(prev) = "list" =>
      C_Env(svc_config).items
        = C_ListUpsertAll(C_Env(prev).items, call.upserts, Len(call.upserts))

\* C7 as amended: on the key->value entries of the environment (of a list: its
\* assignments, split at the first '=', one per key) setting a variable replaces
\* the value of its key where the key stands, or appends the key when it is
\* absent, and leaves every other key, value and the order as they were; the
\* entries of a mapping, and of a list of assignments with pairwise different
\* keys, are all kept
C7_UpsertKeepsPositions ==
    C_Called =>
      /\ C_Pairs(svc_config)
           = C_UpsertAll(C_Pairs(prev), call.upserts, Len(call.upserts))
      /\ C_Shape(svc_config) = "list" =>
           C_Env(svc_config).items = C_AsList(C_Pairs(svc_config))
      /\ C_Shape(prev) = "list" /\ C_Clean(C_Env(prev).items) =>
           C_Env(svc_config).items
             = C_ListUpsertAll(C_Env(prev).items, call.upserts, Len(call.upserts))

\* update_qdrant on a list: one key set in place, the other appended
C7_Witness ==
    /\ C_Called
    /\ call.fn = "update_qdrant"
    /\ C_Shape(prev) = "list"
    /\ C_Env(prev).items
         = << Str(<<"QDRANT__STORAGE__ON_DISK_PAYLOAD", "=", "false">>),
              Str(<<"X", "=", "a", "=", "b">>) >>
    /\ C_Env(svc_config).items
         = << Str(<<"QDRANT__STORAGE__ON_DISK_PAYLOAD", "=", "true">>),
              Str(<<"X", "=", "a", "=", "b">>),
              Str(<<"QDRANT__STORAGE__MEMMAP_THRESHOLD_KB", "=", "1">>) >>

-----------------------------------------------------------------------------
(* The five editing scripts as whole runs: main(compose_file, args) is the   *)
(* file the run leaves on disk, the changes it reports, whether it wrote   *)
(* the file, and its exit status.                                          *)

\* sys.exit(1) before anything is edited
exit1(compose_file) ==
    [file |-> compose_file, changes |-> <<>>, saved |-> FALSE, exit |-> 1]

\* the end of main: yaml.dump(data, f) unless --dry-run
finish(compose_file, opts, doc, reported) ==
    [file    |-> IF opts.dry_run THEN compose_file ELSE doc,
     changes |-> reported,
     saved   |-> ~opts.dry_run,
     exit    |-> 0]

\* services[name]
service_at(doc, name) == Get(Get(doc, "services"), name)

\* data after update_X(services[name], settings) returned r
updated(doc, name, r) == SetPath(doc, <<"services", name>>, r.config)

\* reduce-cassandra.py, main, lines 113-127
cassandra_run(compose_file, opts, r) ==
    finish(compose_file, opts, updated(compose_file, "cassandra", r), r.changes)

cassandra_main(compose_file, opts) ==
    IF ~Has(compose_file, "services") THEN exit1(compose_file)
    ELSE IF ~Has(Get(compose_file, "services"), "cassandra") THEN exit1(compose_file)
    ELSE cassandra_run(compose_file, opts,
                       update_cassandra(service_at(compose_file, "cassandra"), opts.settings))

\* reduce-qdrant.py, main, lines 120-133
qdrant_run(compose_file, opts, r) ==
    finish(compose_file, opts, updated(compose_file, "qdrant", r), r.changes)

qdrant_main(compose_file, opts) ==
    IF ~Has(compose_file, "services") THEN exit1(compose_file)
    ELSE IF ~Has(Get(compose_file, "services"), "qdrant") THEN exit1(compose_file)
    ELSE qdrant_run(compose_file, opts,
                    update_qdrant(service_at(compose_file, "qdrant"), opts.settings))

\* reduce-pulsar-memory.py, main, lines 119-120
pulsar_collect(acc, service_name, r) ==
    [data    |-> updated(acc.data, service_name, r),
     changes |-> acc.changes \o << <<service_name, ":">> >> \o r.changes]

\* lines 117-122: one turn of the loop
pulsar_turn(acc, service_name) ==
    IF Has(Get(acc.data, "services"), service_name)
    THEN pulsar_collect(acc, service_name,
                        update_service(service_name, service_at(acc.data, service_name),
                                       pulsar_settings(service_name)))
    ELSE acc

\* lines 116-122: the first n turns of the loop over PULSAR_STACK_SETTINGS
RECURSIVE pulsar_loop(_, _)
pulsar_loop(doc, n) ==
    IF n = 0 THEN [data |-> doc, changes |-> <<>>]
    ELSE pulsar_turn(pulsar_loop(doc, n - 1), PulsarNames[n])

pulsar_run(compose_file, opts, acc) == finish(compose_file, opts, acc.data, acc.changes)

pulsar_main(compose_file, opts) ==
    IF ~Has(compose_file, "services") THEN exit1(compose_file)
    ELSE pulsar_run(compose_file, opts, pulsar_loop(compose_file, Len(PulsarNames)))

MONITORING_SERVICES == <<"grafana", "prometheus", "loki">>

MONITORING_VOLUMES == <<"grafana-storage", "prometheus-data", "loki-data">>

\* mutant of monitoring_remove: the name is recorded only when it is deleted
monitoring_remove_unrecorded(acc, opts, section, name) ==
    IF Has(Get(acc.data, section), name) /\ ~opts.dry_run
    THEN [data    |-> Put(acc.data, section, Del(Get(acc.data, section), name)),
          removed |-> Append(acc.removed, name)]
    ELSE acc

\* remove-monitoring.py, lines 49-52 and 61-64: one turn of a removal loop
monitoring_remove(acc, opts, section, name) ==
    IF Has(Get(acc.data, section), name)
    THEN [data    |-> IF opts.dry_run THEN acc.data
                      ELSE Put(acc.data, section, Del(Get(acc.data, section), name)),
          removed |-> Append(acc.removed, name)]
    ELSE acc

\* the first n turns of the loop over names
RECURSIVE monitoring_loop(_, _, _, _, _)
monitoring_loop(doc, opts, section, names, n) ==
    IF n = 0 THEN [data |-> doc, removed |-> <<>>]
    ELSE monitoring_remove(monitoring_loop(doc, opts, section, names, n - 1),
                           opts, section, names[n])

\* mutant of monitoring_volumes: --keep-volumes is not looked at
monitoring_volumes_always(opts, s) ==
    IF Has(s.data, "volumes")
    THEN monitoring_loop(s.data, opts, "volumes", MONITORING_VOLUMES,
                         Len(MONITORING_VOLUMES))
    ELSE [data |-> s.data, removed |-> <<>>]

\* lines 58-65, after the loop over the services
monitoring_volumes(opts, s) ==
    IF ~opts.keep_volumes /\ Has(s.data, "volumes")
    THEN monitoring_loop(s.data, opts, "volumes", MONITORING_VOLUMES,
                         Len(MONITORING_VOLUMES))
    ELSE [data |-> s.data, removed |-> <<>>]

\* lines 67-77
monitoring_run(compose_file, opts, s, v) ==
    finish(compose_file, opts, v.data,
           [removed_services |-> s.removed, removed_volumes |-> v.removed])

monitoring_after_services(compose_file, opts, s) ==
    monitoring_run(compose_file, opts, s, monitoring_volumes(opts, s))

monitoring_main(compose_file, opts) ==
    IF ~Has(compose_file, "services") THEN exit1(compose_file)
    ELSE monitoring_after_services(compose_file, opts,
           monitoring_loop(compose_file, opts, "services", MONITORING_SERVICES,
                           Len(MONITORING_SERVICES)))

\* reduce-reservations.py, main, lines 98-100
reserve_collect(acc, service_name, r) ==
    [data    |-> updated(acc.data, service_name, r),
     changes |-> IF r.ret # None THEN Append(acc.changes, r.ret) ELSE acc.changes]

reserve_turn(acc, item, factor) ==
    reserve_collect(acc, item.k, reduce_service_reservation(item.k, item.v, factor))

\* lines 97-100: the first n turns of the loop over services.items()
RECURSIVE reserve_loop(_, _, _)
reserve_loop(doc, factor, n) ==
    IF n = 0 THEN [data |-> doc, changes |-> <<>>]
    ELSE reserve_turn(reserve_loop(doc, factor, n - 1),
                      Get(doc, "services").kv[n], factor)

\* lines 102-128: with no change the run returns before it writes
reserve_run(compose_file, opts, acc) ==
    [file    |-> IF acc.changes # <<>> /\ ~opts.dry_run THEN acc.data ELSE compose_file,
     changes |-> acc.changes,
     saved   |-> acc.changes # <<>> /\ ~opts.dry_run,
     exit    |-> 0]

reserve_main(compose_file, opts) ==
    IF ~Has(compose_file, "services") THEN exit1(compose_file)
    ELSE reserve_run(compose_file, opts,
                     reserve_loop(compose_file, opts.factor,
                                  Len(Get(compose_file, "services").kv)))

-----------------------------------------------------------------------------
(* Specification SpecDry: runs of the five scripts on one compose file.    *)
(* Beside each run the same run with the dry-run flag flipped is computed  *)
(* on the same file, for comparison.                                       *)

\* a service with a reservation and a list environment
ListService ==
    Service(MapNode(<< [k |-> "resources", v |->
                          MapNode(<< [k |-> "reservations", v |-> Mem(Str(<<"1", "G">>))] >>)] >>),
            ListNode(<< Str(<<"A", "=", "1">>), Str(<<"FLAG">>) >>))

\* a service with a mapping environment and no deploy block
MappingService ==
    Service(None, MapNode(<< [k |-> <<"JVM_OPTS">>, v |-> Str(<<"-Xmx1G">>)] >>))

\* the services of the file, by group: each group is absent or present
DryCassandra ==
    { <<>>, << [k |-> "cassandra", v |-> ListService] >>,
            << [k |-> "cassandra", v |-> MappingService] >> }

DryQdrant == { <<>>, << [k |-> "qdrant", v |-> ListService] >> }

DryPulsar ==
    { <<>>, << [k |-> "zookeeper", v |-> MappingService],
               [k |-> "bookie", v |-> ListService] >> }

DryMonitoring ==
    { <<>>, << [k |-> "grafana", v |-> MappingService],
               [k |-> "loki", v |-> ListService] >> }

DryVolumes ==
    { <<>>, << [k |-> "volumes", v |->
                  MapNode(<< [k |-> "grafana-storage", v |-> EmptyMap],
                             [k |-> "pgdata", v |-> EmptyMap] >>)] >>,
            << [k |-> "volumes", v |->
                  MapNode(<< [k |-> "pgdata", v |-> EmptyMap],
                             [k |-> "loki-data", v |-> EmptyMap],
                             [k |-> "redis-data", v |-> EmptyMap] >>)] >> }

DryFiles ==
    { MapNode(<< [k |-> "services", v |-> MapNode(c \o q \o p \o m)] >> \o v) :
        c \in DryCassandra, q \in DryQdrant, p \in DryPulsar,
        m \in DryMonitoring, v \in DryVolumes }
      \cup { MapNode(<< [k |-> "services", v |->
                            MapNode(<< [k |-> "grafana", v |-> MappingService] >> \o c
                                    \o << [k |-> "prometheus", v |-> ListService] >> \o q)] >>
                      \o v) :
                c \in DryCassandra, q \in DryQdrant, v \in DryVolumes }
      \cup { MapNode(v) : v \in DryVolumes }

DryInit ==
    /\ manifest \in DryFiles
    /\ outcome = None /\ twin = None /\ nruns = 0
    /\ ParseIdle
    /\ ReserveIdle
    /\ EnvIdle
    /\ DiffIdle

\* the run with the other value of --dry-run
Flip(opts) == [opts EXCEPT !.dry_run = ~@]

\* a run of script with opts that ended as r, where the flipped run ends as f
DryRun(script, opts, r, f) ==
    /\ nruns < MaxRuns
    /\ outcome' = [script |-> script, args |-> opts, before |-> manifest, run |-> r]
    /\ twin' = f
    /\ manifest' = r.file
    /\ nruns' = nruns + 1
    /\ UNCHANGED <<ParseVars, ReserveVars, EnvVars, DiffVars>>

RunCassandra ==
    \E opts \in [settings : {DEFAULT_SETTINGS}, dry_run : BOOLEAN] :
      DryRun("reduce-cassandra", opts,
             cassandra_main(manifest, opts), cassandra_main(manifest, Flip(opts)))

RunQdrant ==
    \E opts \in [settings : {QDRANT_DEFAULT_SETTINGS}, dry_run : BOOLEAN] :
      DryRun("reduce-qdrant", opts,
             qdrant_main(manifest, opts), qdrant_main(manifest, Flip(opts)))

RunPulsar ==
    \E opts \in [dry_run : BOOLEAN] :
      DryRun("reduce-pulsar-memory", opts,
             pulsar_main(manifest, opts), pulsar_main(manifest, Flip(opts)))

RunMonitoring ==
    \E opts \in [dry_run : BOOLEAN, keep_volumes : BOOLEAN] :
      DryRun("remove-monitoring", opts,
             monitoring_main(manifest, opts), monitoring_main(manifest, Flip(opts)))

RunReservations ==
    \E opts \in [factor : {Factor(1, 2)}, dry_run : BOOLEAN] :
      DryRun("reduce-reservations", opts,
             reserve_main(manifest, opts), reserve_main(manifest, Flip(opts)))

DryNext == RunCassandra \/ RunQdrant \/ RunPulsar \/ RunMonitoring \/ RunReservations

SpecDry == DryInit /\ [][DryNext]_vars

\* C10: a run with the dry-run flag reports the same changes, in the same
\* order, as the run without it on the same file, and leaves the file on disk
\* as it was, without writing it
C10_DryRunEquivalence ==
    outcome # None =>
      /\ outcome.run.changes = twin.changes
      /\ outcome.run.exit = twin.exit
      /\ outcome.args.dry_run =>
           /\ ~outcome.run.saved
           /\ manifest = outcome.before

\* a dry run of remove-monitoring that reports a service and a volume which the
\* run without the flag removes from the file
C10_Witness ==
    /\ outcome # None
    /\ outcome.script = "remove-monitoring"
    /\ outcome.args.dry_run
    /\ outcome.run.exit = 0
    /\ outcome.run.changes.removed_services = <<"grafana", "loki">>
    /\ outcome.run.changes.removed_volumes = <<"grafana-storage">>
    /\ Has(Get(manifest, "services"), "grafana")
    /\ twin.saved
    /\ ~Has(Get(twin.file, "services"), "grafana")
    /\ twin.file # manifest

-----------------------------------------------------------------------------
(* yaml-diff.py.  A key and a flattened key are strings: sequences of      *)
(* characters.  flatten_dict returns the flat dict, or raises when it is   *)
(* given something that has no .items().                                   *)

Raised == [err |-> TRUE, items |-> <<>>]

Items(items) == [err |-> FALSE, items |-> items]

\* items.extend(more), where computing more may have raised
extend(acc, more) ==
    IF acc.err \/ more.err THEN Raised ELSE Items(acc.items \o more.items)

\* dict(items): a key keeps its first position and gets its last value
RECURSIVE dict_of(_, _)
dict_of(items, n) ==
    IF n = 0 THEN EmptyMap ELSE Put(dict_of(items, n - 1), items[n].k, items[n].v)

\* line 19: f"{parent_key}{sep}{k}" if parent_key else k
new_key(parent_key, k) ==
    IF parent_key # <<>> THEN parent_key \o <<".">> \o k ELSE k

\* line 26: f"{new_key}[{i}]"
indexed_key(key, i) == key \o <<"[">> \o IntToStr(i) \o <<"]">>

\* line 24: v and isinstance(v[0], dict)
holds_dicts(v) == v.items # <<>> /\ v.items[1].t = "map"

RECURSIVE flatten_items(_, _)
RECURSIVE flatten_entries(_, _, _)
RECURSIVE flatten_list(_, _, _)

\* lines 20-30: what one value adds to items
flatten_value(v, key) ==
    IF v.t = "map" THEN flatten_items(v, key)
    ELSE IF v.t = "list" /\ holds_dicts(v) THEN flatten_list(v.items, key, Len(v.items))
    ELSE Items(<< [k |-> key, v |-> v] >>)

\* lines 25-26: the first n turns of the loop over the list
flatten_list(list, key, n) ==
    IF n = 0 THEN Items(<<>>)
    ELSE extend(flatten_list(list, key, n - 1),
                flatten_items(list[n], indexed_key(key, n - 1)))

\* lines 18-30: the first n turns of the loop over d.items()
flatten_entries(kv, parent_key, n) ==
    IF n = 0 THEN Items(<<>>)
    ELSE extend(flatten_entries(kv, parent_key, n - 1),
                flatten_value(kv[n].v, new_key(parent_key, kv[n].k)))

\* the result of flatten_dict, given the items collected
flat_dict(r) ==
    IF r.err THEN Raised ELSE Items(dict_of(r.items, Len(r.items)).kv)

\* flatten_dict(d, parent_key).items(); d.items() raises when d is no mapping
flatten_items(d, parent_key) ==
    IF d.t # "map" THEN Raised
    ELSE flat_dict(flatten_entries(d.kv, parent_key, Len(d.kv)))

as_flat(r) == [err |-> r.err, flat |-> MapNode(r.items)]

\* flatten_dict(d): the flat dict, as a mapping
flatten_dict(d) == as_flat(flatten_items(d, <<>>))

\* bool(x): None, 0 and the empty mapping, list and string are false
truthy(x) ==
    CASE x.t = "null" -> FALSE
      [] x.t = "map"  -> x.kv # <<>>
      [] x.t = "list" -> x.items # <<>>
      [] x.t = "str"  -> x.s # <<>>
      [] x.t = "int"  -> x.n # 0

\* part in s, for strings
substring(part, s) ==
    \E i \in 0..(Len(s) - Len(part)) : SubSeq(s, i + 1, i + Len(part)) = part

\* lines 60-63: data = data[part] if data and part in data else {}; only a
\* mapping can be subscripted by part, and only a container can be searched
focus(x, part) ==
    CASE ~truthy(x)   -> [err |-> FALSE, data |-> EmptyMap]
      [] x.t = "map"  -> IF Has(x, part) THEN [err |-> FALSE, data |-> Get(x, part)]
                         ELSE [err |-> FALSE, data |-> EmptyMap]
      [] x.t = "list" -> [err  |-> \E i \in 1..Len(x.items) : x.items[i] = Str(part),
                          data |-> EmptyMap]
      [] x.t = "str"  -> [err |-> substring(part, x.s), data |-> EmptyMap]
      [] x.t = "int"  -> [err |-> TRUE, data |-> EmptyMap]

focus_next(r, part) == IF r.err THEN r ELSE focus(r.data, part)

\* lines 57-67, for one of the two documents: the first n parts of context
RECURSIVE focus_all(_, _, _)
focus_all(x, parts, n) ==
    IF n = 0 THEN [err |-> FALSE, data |-> x]
    ELSE focus_next(focus_all(x, parts, n - 1), parts[n])

\* lines 69-70: flatten_dict(data) if data else {}
flat_of(r) ==
    IF r.err THEN [err |-> TRUE, flat |-> EmptyMap]
    ELSE IF truthy(r.data) THEN flatten_dict(r.data)
    ELSE [err |-> FALSE, flat |-> EmptyMap]

\* the characters of the keys, in the order of their code points
CharOrder ==
    << ".", "0", "1", "2", "3", "4", "5", "6", "7", "8", "9", "[", "]", "a", "b", "c" >>

Ord(c) == CHOOSE i \in 1..Len(CharOrder) : CharOrder[i] = c

\* p < q, for strings
StrLess(p, q) ==
    \E i \in 1..Len(q) :
      /\ i <= Len(p) + 1
      /\ \A j \in 1..(i - 1) : p[j] = q[j]
      /\ i = Len(p) + 1 \/ Ord(p[i]) < Ord(q[i])

\* sorted(keys), for a set of strings
sorted(keys) ==
    [i \in 1..Cardinality(keys) |->
       CHOOSE k \in keys : Cardinality({j \in keys : StrLess(j, k)}) = i - 1]

\* line 72
all_keys(flat1, flat2) ==
    {flat1.kv[i].k : i \in 1..Len(flat1.kv)} \cup {flat2.kv[i].k : i \in 1..Len(flat2.kv)}

\* mutant of classify: the second test is "elif in2", so that a key of both
\* files counts as added
classify_added_if_in2(acc, flat1, flat2, key) ==
    IF Has(flat1, key) /\ ~Has(flat2, key)
    THEN [acc EXCEPT !.removed = Append(@, [key |-> key, value |-> Get(flat1, key)])]
    ELSE IF Has(flat2, key)
    THEN [acc EXCEPT !.added = Append(@, [key |-> key, value |-> Get(flat2, key)])]
    ELSE acc

\* mutant of classify: a key of both files is never compared
classify_presence_only(acc, flat1, flat2, key) ==
    IF Has(flat1, key) /\ ~Has(flat2, key)
    THEN [acc EXCEPT !.removed = Append(@, [key |-> key, value |-> Get(flat1, key)])]
    ELSE IF Has(flat2, key) /\ ~Has(flat1, key)
    THEN [acc EXCEPT !.added = Append(@, [key |-> key, value |-> Get(flat2, key)])]
    ELSE acc

\* lines 79-87: one turn of the loop over the sorted keys
classify(acc, flat1, flat2, key) ==
    IF Has(flat1, key) /\ ~Has(flat2, key)
    THEN [acc EXCEPT !.removed = Append(@, [key |-> key, value |-> Get(flat1, key)])]
    ELSE IF Has(flat2, key) /\ ~Has(flat1, key)
    THEN [acc EXCEPT !.added = Append(@, [key |-> key, value |-> Get(flat2, key)])]
    ELSE IF Get(flat1, key) # Get(flat2, key)
    THEN [acc EXCEPT !.changed = Append(@, [key |-> key, old |-> Get(flat1, key),
                                            new |-> Get(flat2, key)])]
    ELSE acc

\* lines 74-87: the first n turns of the loop
RECURSIVE classify_all(_, _, _, _)
classify_all(flat1, flat2, keys, n) ==
    IF n = 0 THEN [err |-> FALSE, added |-> <<>>, removed |-> <<>>, changed |-> <<>>]
    ELSE classify(classify_all(flat1, flat2, keys, n - 1), flat1, flat2, keys[n])

\* an exception leaves compare_yaml
compare_raised == [err |-> TRUE, added |-> <<>>, removed |-> <<>>, changed |-> <<>>]

\* lines 72-89, given the two flat dicts
compare_flat(f1, f2) ==
    IF f1.err \/ f2.err THEN compare_raised
    ELSE classify_all(f1.flat, f2.flat, sorted(all_keys(f1.flat, f2.flat)),
                      Cardinality(all_keys(f1.flat, f2.flat)))

\* compare_yaml, on the documents loaded from the two files
compare_yaml(file1, file2, section) ==
    compare_flat(flat_of(focus_all(file1, section, Len(section))),
                 flat_of(focus_all(file2, section, Len(section))))

-----------------------------------------------------------------------------
(* Specification SpecDiff: one call of compare_yaml on two documents, and  *)
(* beside it the call with the two files exchanged.                        *)

KeyA == <<"a">>
KeyB == <<"b">>
KeyAB == <<"a", ".", "b">>

\* the mapping with one key
One(k, v) == MapNode(<< [k |-> k, v |-> v] >>)

DiffScalars == {IntNode(0), IntNode(1)}

\* lists that flatten_dict keeps as one value
PlainLists ==
    { ListNode(<<>>), ListNode(<<IntNode(1)>>), ListNode(<<IntNode(1), IntNode(0)>>) }

SmallMaps == {EmptyMap} \cup { One(k, s) : k \in {KeyA, KeyB}, s \in DiffScalars }

\* lists of mappings, and a list whose first item only is a mapping
DictLists ==
    { ListNode(items) :
        items \in UNION { [1..n -> {EmptyMap, One(KeyA, IntNode(1))}] : n \in 1..MaxItems } }
      \cup { ListNode(<<One(KeyA, IntNode(1)), IntNode(1)>>) }

DiffValues ==
    DiffScalars \cup PlainLists \cup SmallMaps \cup DictLists
      \cup { One(KeyA, EmptyMap), One(KeyA, One(KeyB, IntNode(1))) }

\* the documents: an empty file, mappings of one key, among them a key that
\* holds the separator, and mappings of two keys in both orders
DiffDocs ==
    {None} \cup { One(KeyA, v) : v \in DiffValues }
           \cup { One(KeyB, v) : v \in DiffScalars \cup {EmptyMap} }
           \cup { One(KeyAB, v) : v \in DiffScalars }
           \cup { MapNode(<< [k |-> KeyA, v |-> v], [k |-> KeyB, v |-> w] >>) :
                    v, w \in DiffScalars \cup {EmptyMap} }
           \cup { MapNode(<< [k |-> KeyB, v |-> w], [k |-> KeyA, v |-> v] >>) :
                    v, w \in DiffScalars \cup {EmptyMap} }

\* --section: absent, "a" or "a.b"
DiffSections == { <<>>, <<KeyA>>, <<KeyA, KeyB>> }

DiffInit ==
    /\ data1 \in DiffDocs
    /\ data2 \in DiffDocs
    /\ context \in DiffSections
    /\ compared = None
    /\ ParseIdle
    /\ ReserveIdle
    /\ EnvIdle
    /\ DryIdle

CompareYaml ==
    /\ compared = None
    /\ compared' = [fwd  |-> compare_yaml(data1, data2, context),
                    back |-> compare_yaml(data2, data1, context)]
    /\ UNCHANGED <<data1, data2, context, ParseVars, ReserveVars, EnvVars, DryVars>>

DiffNext == CompareYaml

SpecDiff == DiffInit /\ [][DiffNext]_vars

-----------------------------------------------------------------------------
(* Claims about compare_yaml, under SpecDiff.                              *)

C_Compared == compared # None

\* the entries of a list of a result, as a set
C_Set(list) == {list[i] : i \in 1..Len(list)}

\* a changed entry read from the other side
C_Swap(e) == [key |-> e.key, old |-> e.new, new |-> e.old]

\* the paths a result reports
C_Paths(r) ==
    {e.key : e \in C_Set(r.added)} \cup {e.key : e \in C_Set(r.removed)}
      \cup {e.key : e \in C_Set(r.changed)}

\* C11: comparing file1 with file2 and file2 with file1 reports the same
\* paths; what one reports as added, the other reports as removed with the
\* same value; what one reports as changed from old to new, the other reports
\* as changed from new to old; and one raises exactly when the other does
C11_DiffSymmetry ==
    C_Compared =>
      /\ compared.fwd.err = compared.back.err
      /\ C_Paths(compared.fwd) = C_Paths(compared.back)
      /\ C_Set(compared.fwd.added) = C_Set(compared.back.removed)
      /\ C_Set(compared.fwd.removed) = C_Set(compared.back.added)
      /\ C_Set(compared.back.changed) = {C_Swap(e) : e \in C_Set(compared.fwd.changed)}

\* a comparison with an added, a removed and a changed path
C11_Witness ==
    /\ C_Compared
    /\ ~compared.fwd.err
    /\ compared.fwd.added # <<>>
    /\ compared.fwd.changed # <<>>
    /\ compared.back.removed = compared.fwd.added
    /\ compared.back.changed[1].old = compared.fwd.changed[1].new
    /\ compared.back.changed[1].old # compared.back.changed[1].new

\* the flat dicts of the two documents of the call
C_Flat1 == flat_of(focus_all(data1, context, Len(context))).flat
C_Flat2 == flat_of(focus_all(data2, context, Len(context))).flat

C_KeysOf(flat) == {flat.kv[i].k : i \in 1..Len(flat.kv)}

\* the keys of a list of entries are in strictly ascending order
C_Ascending(list) ==
    \A i, j \in 1..Len(list) : i < j => StrLess(list[i].key, list[j].key)

C_Returned == C_Compared /\ ~compared.fwd.err

\* C12: of the paths of the two flat dicts, compare_yaml reports as added
\* exactly those of file2 only, as removed exactly those of file1 only, as
\* changed exactly those of both with unequal values, each with its values,
\* and nothing else; each list is in ascending order of the path string
C12_DiffClassification ==
    C_Returned =>
      /\ C_Set(compared.fwd.added)
           = { [key |-> k, value |-> Get(C_Flat2, k)] : k \in C_KeysOf(C_Flat2) \ C_KeysOf(C_Flat1) }
      /\ C_Set(compared.fwd.removed)
           = { [key |-> k, value |-> Get(C_Flat1, k)] : k \in C_KeysOf(C_Flat1) \ C_KeysOf(C_Flat2) }
      /\ C_Set(compared.fwd.changed)
           = { [key |-> k, old |-> Get(C_Flat1, k), new |-> Get(C_Flat2, k)] :
                 k \in { x \in C_KeysOf(C_Flat1) \cap C_KeysOf(C_Flat2) :
                           Get(C_Flat1, x) # Get(C_Flat2, x) } }
      /\ C_Ascending(compared.fwd.added)
      /\ C_Ascending(compared.fwd.removed)
      /\ C_Ascending(compared.fwd.changed)

\* two changed paths, reported in ascending order although file2 has them in
\* the other order, beside a document that flattens to more than it reports
C12_Witness ==
    /\ C_Returned
    /\ Len(compared.fwd.changed) = 2
    /\ compared.fwd.changed[1].key = KeyA
    /\ compared.fwd.changed[2].key = KeyB
    /\ data2.kv[1].k = KeyB
    /\ compared.fwd.added = <<>>
    /\ compared.fwd.removed = <<>>

-----------------------------------------------------------------------------
(* Claims about remove-monitoring.py, under SpecDry.                       *)

C_MonitoringService(e) == e.k \in {"grafana", "prometheus", "loki"}
C_OtherService(e) == ~C_MonitoringService(e)

C_MonitoringVolume(e) == e.k \in {"grafana-storage", "prometheus-data", "loki-data"}
C_OtherVolume(e) == ~C_MonitoringVolume(e)

\* a run of remove-monitoring.py without --dry-run on a file with services
C_Removal ==
    /\ outcome # None
    /\ outcome.script = "remove-monitoring"
    /\ ~outcome.args.dry_run
    /\ Has(outcome.before, "services")

\* C13: a run of remove-monitoring.py without --dry-run ends without error and
\* leaves a file whose services are the services it had other than grafana,
\* prometheus and loki, each as it was and in the same order; its volumes,
\* when it has the section, are the volumes it had other than grafana-storage,
\* prometheus-data and loki-data, as they were and in the same order, or, with
\* --keep-volumes, all the volumes it had; nothing else of the file differs
C13_DeleteKeyRemovesExactly ==
    C_Removal =>
      /\ outcome.run.exit = 0
      /\ outcome.run.saved
      /\ Keys(manifest) = Keys(outcome.before)
      /\ Get(manifest, "services").kv
           = SelectSeq(Get(outcome.before, "services").kv, C_OtherService)
      /\ Has(outcome.before, "volumes") =>
           Get(manifest, "volumes").kv
             = IF outcome.args.keep_volumes THEN Get(outcome.before, "volumes").kv
               ELSE SelectSeq(Get(outcome.before, "volumes").kv, C_OtherVolume)
      /\ \A i \in 1..Len(manifest.kv) :
           manifest.kv[i].k \notin {"services", "volumes"} =>
             manifest.kv[i] = outcome.before.kv[i]

\* grafana and prometheus removed from among other services, loki absent, and
\* loki-data removed from between two other volumes
C13_Witness ==
    /\ C_Removal
    /\ ~outcome.args.keep_volumes
    /\ Keys(Get(outcome.before, "services")) = <<"grafana", "cassandra", "prometheus", "qdrant">>
    /\ Keys(Get(manifest, "services")) = <<"cassandra", "qdrant">>
    /\ Has(outcome.before, "volumes")
    /\ Keys(Get(outcome.before, "volumes")) = <<"pgdata", "loki-data", "redis-data">>
    /\ Keys(Get(manifest, "volumes")) = <<"pgdata", "redis-data">>
    /\ outcome.run.changes.removed_services = <<"grafana", "prometheus">>

-----------------------------------------------------------------------------
(* Claims about the frame and the direction of reduce_service_reservation, *)
(* under SpecReserve.                                                      *)

\* reduce_service_reservation has been called in this run
C_Reduced == last # None

\* where the reservation of the service of the latest call sits in the document
C_LastPath == <<"services", last.service>> \o C_MemPath

\* C14: a call of reduce_service_reservation leaves the document as it was,
\* or as it was but for deploy.resources.reservations.memory of the service it
\* was called on, a field the service had before; deploy.resources.limits of
\* that service and every other service are as before
C14_OnlyReservationChanges ==
    C_Reduced =>
      /\ \/ data = last.before
         \/ /\ C_HasPath(last.before, C_LastPath)
            /\ data = SetPath(last.before, C_LastPath, C_AtPath(data, C_LastPath))
      /\ Keys(Get(data, "services")) = Keys(Get(last.before, "services"))
      /\ \A i \in 1..C_Count(data) :
           C_NameAt(data, i) # last.service =>
             Get(data, "services").kv[i] = Get(last.before, "services").kv[i]
      /\ C_HasPath(last.before, <<"services", last.service, "deploy", "resources", "limits">>) =>
           C_AtPath(data, <<"services", last.service, "deploy", "resources", "limits">>)
             = C_AtPath(last.before, <<"services", last.service, "deploy", "resources", "limits">>)

\* a call that halves a reservation of 1000M beside a limit of 2G
C14_Witness ==
    /\ C_Reduced
    /\ last.ret # None
    /\ data # last.before
    /\ C_AtPath(last.before, C_LastPath) = Str(<<"1", "0", "0", "0", "M">>)
    /\ C_AtPath(data, C_LastPath) = Str(<<"5", "0", "0", "M">>)
    /\ C_AtPath(data, <<"services", last.service, "deploy", "resources", "limits">>) = Limits2G

\* C15: with a factor above 0 and at most 1, the reservation a service has
\* after a call of reduce_service_reservation is, in megabytes, at most the
\* reservation it had before the call
C15_ScalingOnlyReduces ==
    (/\ C_Reduced
     /\ 0 < args.factor.num /\ args.factor.num <= args.factor.den
     /\ C_Parsable(C_Service(last.before, last.service)))
      => C_Megabytes(C_Service(data, last.service))
           <= C_Megabytes(C_Service(last.before, last.service))

-----------------------------------------------------------------------------
(* Claims about the completeness of compare_yaml, under SpecDiff.          *)

\* structural equality of two documents: mappings with the same keys and
\* equal values whatever the order of the keys, sequences of equal length
\* with equal items in order, equal scalars; an empty file is taken as equal
\* to the empty mapping
RECURSIVE C_SameDoc(_, _)
C_SameDoc(x, y) ==
    IF x.t = "map" /\ y.t = "map"
    THEN /\ C_KeysOf(x) = C_KeysOf(y)
         /\ \A k \in C_KeysOf(x) : C_SameDoc(Get(x, k), Get(y, k))
    ELSE IF x.t = "list" /\ y.t = "list"
    THEN /\ Len(x.items) = Len(y.items)
         /\ \A i \in 1..Len(x.items) : C_SameDoc(x.items[i], y.items[i])
    ELSE \/ x = y
         \/ {x, y} = {None, EmptyMap}

\* C16: without --section, compare_yaml returns empty added, removed and
\* changed lists only if the two documents are structurally equal
C16_DiffCompleteness ==
    (/\ C_Returned
     /\ context = <<>>
     /\ compared.fwd.added = <<>>
     /\ compared.fwd.removed = <<>>
     /\ compared.fwd.changed = <<>>)
      => C_SameDoc(data1, data2)

=============================================================================
